---- MODULE Spec2Model ----
(***************************************************************************)
(* Projection engine of the async-art subgraph: the event handlers of      *)
(* src/unnamed/part_000 (the complete handler set) over an entity store.   *)
(* Every handler is one action: it runs to completion or aborts the run.   *)
(***************************************************************************)
EXTENDS Integers, Sequences, FiniteSets, TLC

\* ------------------------------------------------------------------------
\* Bounds and input domains
\* ------------------------------------------------------------------------
\* events of a run, of a run of bids and sales, of a run of lever updates
MaxEvents == 2
MaxBidEvents == 3
MaxUpdates == 3

MasterId == 1
ControllerId == 2
AbsentId == 3
TokenIds == {MasterId, ControllerId, AbsentId}
Creator == "u1"
Addresses == {"u1", "u2"}
ZeroAddress == "0x0"
Amounts == {1, 2}
Null == <<>>

\* ------------------------------------------------------------------------
\* State: the entity store, one variable per entity type, and the run
\* ------------------------------------------------------------------------
\*   globalState .. layerUpdates  the stored entities, by id
\*   masterLayers   the derived master/children linkage
\*   halted         the run was aborted by a fatal error
\*   seq            the number of events delivered
\*   txHash         the transaction of the last event (also its timestamp)
\*   lastEvent      the last event delivered, with its parameters
\*   reconciled     the last handler ended with the two reconciler calls
\*   older          the store of the older handler set, a record of the
\*                  same entity types (it moves only where both sets run)
\*   liveBid        per token, the bid proposed last and not since withdrawn
\*                  or sold (history of the events, not read by any handler)
VARIABLES globalState, users, tokens, bids, sales, transfers, controllers,
          levers, layerUpdates, masterLayers, halted, seq, txHash,
          lastEvent, liveBid, reconciled, older

store == <<globalState, users, tokens, bids, sales, transfers, controllers,
           levers, layerUpdates, masterLayers>>
vars == <<globalState, users, tokens, bids, sales, transfers, controllers,
          levers, layerUpdates, masterLayers, halted, seq, txHash,
          lastEvent, liveBid, reconciled, older>>

\* load(type, id) is "id \in DOMAIN s"; upsert(type, id, record):
Save(s, id, rec) == [x \in (DOMAIN s) \cup {id} |-> IF x = id THEN rec ELSE s[x]]

Exists(s, id) == id \in DOMAIN s


NoTimestamp == 0

\* ------------------------------------------------------------------------
\* Helpers of util (not part of the handler files)
\* ------------------------------------------------------------------------
NewUser(id) ==
  [id |-> id, bids |-> <<>>, buys |-> <<>>, sells |-> <<>>,
   ownedMasters |-> <<>>, ownerControllers |-> <<>>]

\* resolve(address): the stored User, created with empty lists on first sight
createOrFetchUserString(us, id) ==
  IF Exists(us, id) THEN us ELSE Save(us, id, NewUser(id))

InitialGlobalState ==
  [initialised |-> TRUE, totalSaleAmount |-> 0,
   latestMasterTokenId |-> 0, currentExpectedTokenSupply |-> 0]

getOrInitialiseGlobalState(gs) ==
  IF gs.initialised THEN gs ELSE InitialGlobalState

\* re-pulls the configuration fields (constant in this model) and persists
refreshGlobalState(gs) == getOrInitialiseGlobalState(gs)

NewToken(id, master, owner) ==
  [id |-> id, isMaster |-> master, owner |-> owner, currentBuyPrice |-> 0,
   currentBid |-> Null, pastBids |-> <<>>, numberOfSales |-> 0,
   tokenDidHaveFirstSale |-> FALSE, permissionedAddress |-> ZeroAddress,
   allSales |-> <<>>, lastSale |-> Null, lastTransfer |-> Null,
   allTransfers |-> <<>>, pastOwners |-> <<>>,
   platformFirstSalePercentage |-> 10, platformSecondSalePercentage |-> 5]

LeverIds == {0, 1}
MissingLeverId == 2

NewController(tokenId) ==
  [id |-> <<tokenId, "Controller">>, numberOfUpdates |-> 0,
   numRemainingUpdates |-> 0, averageUpdateCost |-> 0,
   lastUpdate |-> Null, allUpdates |-> <<>>]

NewLever(tokenId, leverId) ==
  [id |-> <<tokenId, leverId>>, previousValue |-> 0, currentValue |-> 0,
   numberOfUpdates |-> 0, latestUpdate |-> Null]

\* Members of a sequence
Range(q) == {q[i] : i \in 1..Len(q)}

\* children of a master: the contiguous id range after it, in id order
RECURSIVE ChildrenOf(_, _, _)
ChildrenOf(toks, from, to) ==
  IF from > to THEN <<>>
  ELSE IF Exists(toks, from) /\ ~toks[from].isMaster
       THEN <<from>> \o ChildrenOf(toks, from + 1, to)
       ELSE ChildrenOf(toks, from + 1, to)

\* trySetMasterLayers: attach to the latest master its layers, once
trySetMasterLayers(S) ==
  LET m == S.globalState.latestMasterTokenId IN
  IF Exists(S.tokens, m) /\ ~Exists(S.masterLayers, m)
  THEN [S EXCEPT !.masterLayers = Save(@, m,
          [layers |-> ChildrenOf(S.tokens, m + 1,
                        S.globalState.currentExpectedTokenSupply - 1),
           allAtDefault |-> TRUE])]
  ELSE S

\* linkMasterAndControllers: recompute the derived rollup of every master
\* from its children; writes a record only when its value changes
LinkOf(S, m) ==
  [layers |-> S.masterLayers[m].layers,
   allAtDefault |-> \A c \in Range(S.masterLayers[m].layers) :
       Exists(S.tokens, c) =>
         (S.tokens[c].currentBuyPrice = 0 /\ S.tokens[c].currentBid = Null)]

linkMasterAndControllers(S) ==
  [S EXCEPT !.masterLayers = [m \in DOMAIN S.masterLayers |-> LinkOf(S, m)]]

\* the two calls in the other order
reconcileLinkFirst(S) ==
  [trySetMasterLayers(linkMasterAndControllers(S)) EXCEPT !.reconciled = TRUE]

\* the two calls that end a handler; S.reconciled records that they ran
reconcile(S) ==
  [linkMasterAndControllers(trySetMasterLayers(S)) EXCEPT !.reconciled = TRUE]

getOrInitialiseToken(toks, tokenId) == Exists(toks, tokenId)

\* ------------------------------------------------------------------------
\* The handlers, as functions from the store before an event to the store
\* after it.  S.halted is set when the handler aborts the run (log.critical
\* or a dereference of an absent record); writes made before the abort stay.
\* ------------------------------------------------------------------------
Abort(S) == [S EXCEPT !.halted = TRUE]

Append1(q, x) == q \o <<x>>

\* Bid.load(token.currentBid)
HasBid(S, token) == token.currentBid # Null /\ Exists(S.bids, token.currentBid)

\* a handler that forgets to clear the flag
DeactivateForgotten(bid) == bid

Deactivate(bid) == [bid EXCEPT !.bidActive = FALSE]

\* a bid key that is the transaction alone
BidIdOfTransaction(tokenId, txh) == <<MasterId, txh>>

\* tokenId.toString() + "-" + txHash.toHex()
BidId(tokenId, txh) == <<tokenId, txh>>

handleBidProposed(S, tokenId, bidAmount, bidder, txh, ts) ==
  LET S1 == [S EXCEPT !.globalState = getOrInitialiseGlobalState(@),
                      !.users = createOrFetchUserString(@, bidder)]
  IN
  IF ~getOrInitialiseToken(S1.tokens, tokenId)
  THEN S1                                  \* log.warning: the event is skipped
  ELSE
    LET token == S1.tokens[tokenId]
        user == S1.users[bidder]
        bid == [id |-> BidId(tokenId, txh), tokenDetails |-> tokenId,
                bidAmount |-> bidAmount, bidder |-> user.id,
                bidTimestamp |-> ts, bidActive |-> TRUE,
                bidAccepted |-> FALSE, BidWithdrawnTimestamp |-> NoTimestamp]
        old == HasBid(S1, token)
        bids1 == IF old
                 THEN Save(S1.bids, token.currentBid,
                           Deactivate(S1.bids[token.currentBid]))
                 ELSE S1.bids
        token1 == IF old
                  THEN [token EXCEPT !.pastBids = Append1(@, token.currentBid)]
                  ELSE token
        user1 == [user EXCEPT !.bids = Append1(@, bid.id)]
        token2 == [token1 EXCEPT !.currentBid = bid.id]
    IN reconcile([S1 EXCEPT !.users = Save(@, user1.id, user1),
                            !.tokens = Save(@, tokenId, token2),
                            !.bids = Save(bids1, bid.id, bid)])

\* a missing bid that stops the run
NoBidToWithdrawFatal(S) == Abort(S)

\* Bid.load gave null: log.warning, and the handler returns
NoBidToWithdraw(S) == S

\* a withdrawal that leaves the timestamp as it was
WithdrawnBidUnstamped(bid, ts) == Deactivate(bid)

\* bid.bidActive = false; bid.BidWithdrawnTimestamp = txTimestamp
WithdrawnBid(bid, ts) == [Deactivate(bid) EXCEPT !.BidWithdrawnTimestamp = ts]

handleBidWithdrawn(S, tokenId, ts) ==
  LET S1 == [S EXCEPT !.globalState = refreshGlobalState(@)] IN
  IF ~getOrInitialiseToken(S1.tokens, tokenId)
  THEN Abort(S1)                           \* log.critical
  ELSE
    LET token == S1.tokens[tokenId] IN
    IF ~HasBid(S1, token)
    THEN NoBidToWithdraw(S1)
    ELSE
      LET bid == WithdrawnBid(S1.bids[token.currentBid], ts)
          token1 == [token EXCEPT !.pastBids = Append1(@, bid.id)]
      IN [S1 EXCEPT !.bids = Save(@, bid.id, bid),
                    !.tokens = Save(@, tokenId, token1)]

handleBuyPriceSet(S, tokenId, buyPrice) ==
  LET S1 == [S EXCEPT !.globalState = refreshGlobalState(@)] IN
  IF ~getOrInitialiseToken(S1.tokens, tokenId)
  THEN S1                                  \* log.warning: the event is skipped
  ELSE reconcile([S1 EXCEPT !.tokens = Save(@, tokenId,
                     [S1.tokens[tokenId] EXCEPT !.currentBuyPrice = buyPrice])])

\* a gate that lets every granter through
GranterIsAnyone(addressOfGranter, token) == TRUE

\* addressOfGranter.toHex() == token.owner
GranterIsOwner(addressOfGranter, token) == addressOfGranter = token.owner

handlePermissionUpdated(S, tokenId, addressOfGranter, permissioned) ==
  LET S1 == [S EXCEPT !.globalState = getOrInitialiseGlobalState(@)] IN
  IF ~getOrInitialiseToken(S1.tokens, tokenId)
  THEN Abort(S1)                           \* log.critical
  ELSE
    LET token == S1.tokens[tokenId] IN
    reconcile(IF GranterIsOwner(addressOfGranter, token)
              THEN [S1 EXCEPT !.tokens = Save(@, tokenId,
                      [token EXCEPT !.permissionedAddress = permissioned])]
              ELSE S1)

handlePlatformSalePercentageUpdated(S, tokenId, first, second) ==
  LET S1 == [S EXCEPT !.globalState = refreshGlobalState(@)] IN
  IF ~getOrInitialiseToken(S1.tokens, tokenId)
  THEN Abort(S1)                           \* log.critical
  ELSE reconcile([S1 EXCEPT !.tokens = Save(@, tokenId,
                     [S1.tokens[tokenId] EXCEPT
                        !.platformFirstSalePercentage = first,
                        !.platformSecondSalePercentage = second])])

\* a comparison that accepts either match
BidMatchesSaleEither(bid, salePrice, buyer) ==
  bid.bidAmount = salePrice \/ buyer = bid.bidder

\* bid.bidAmount.equals(salePrice) && _buyer.toHexString() == bid.bidder
BidMatchesSale(bid, salePrice, buyer) ==
  bid.bidAmount = salePrice /\ buyer = bid.bidder

\* a sale numbered with the count before the increment
NextSaleNumberStale(token) == token.numberOfSales

NextSaleNumber(token) == token.numberOfSales + 1

\* a sale that leaves the buy price standing
SoldTokenKeepsPrice(token, buyerId, saleId, permission) ==
  [token EXCEPT !.owner = buyerId,
                !.lastSale = saleId,
                !.numberOfSales = @ + 1,
                !.tokenDidHaveFirstSale = TRUE,
                !.allSales = Append1(@, saleId),
                !.currentBid = Null,
                !.permissionedAddress = permission]

\* the token after a sale, lines 354-367
SoldToken(token, buyerId, saleId, permission) ==
  [token EXCEPT !.owner = buyerId,
                !.lastSale = saleId,
                !.currentBuyPrice = 0,
                !.numberOfSales = @ + 1,
                !.tokenDidHaveFirstSale = TRUE,
                !.allSales = Append1(@, saleId),
                !.currentBid = Null,
                !.permissionedAddress = permission]

\* a sale key that is the token alone
SaleIdOfToken(tokenId, tokenSaleNumber) == <<tokenId, 0>>

\* tokenId.toString() + "-" + tokenSaleNumber.toString()
SaleId(tokenId, tokenSaleNumber) == <<tokenId, tokenSaleNumber>>

\* the outcome of getPermissionedAddress when the read of the source fails
QueryFailed == "reverted"

handleTokenSale(S, tokenId, salePrice, buyerAddr, permission, ts) ==
  LET globalState1 == [getOrInitialiseGlobalState(S.globalState)
                         EXCEPT !.totalSaleAmount = @ + salePrice]
      S1 == [S EXCEPT !.users = createOrFetchUserString(@, buyerAddr)]
      buyer == S1.users[buyerAddr]
  IN
  IF ~getOrInitialiseToken(S1.tokens, tokenId)
  THEN Abort(S1)                           \* token.owner of an absent token
  ELSE
    LET token == S1.tokens[tokenId] IN
    IF ~Exists(S1.users, token.owner)
    THEN Abort(S1)                         \* seller.id of an absent seller
    ELSE
      LET seller == S1.users[token.owner]
          tokenSaleNumber == NextSaleNumber(token)
          has == HasBid(S1, token)
          oldBid == S1.bids[token.currentBid]
          match == has /\ BidMatchesSale(oldBid, salePrice, buyerAddr)
          sale == [id |-> SaleId(tokenId, tokenSaleNumber),
                   tokenDetails |-> token.id, buyer |-> buyer.id,
                   seller |-> seller.id, salePrice |-> salePrice,
                   saleTimestamp |-> ts,
                   tokenSaleNumber |-> tokenSaleNumber,
                   isBidSale |-> match,
                   bidDetails |-> IF match THEN oldBid.id ELSE Null]
          bids1 == IF has
                   THEN Save(S1.bids, oldBid.id,
                          Deactivate([oldBid EXCEPT
                             !.bidAccepted = IF match THEN TRUE ELSE @]))
                   ELSE S1.bids
          token1 == IF has
                    THEN [token EXCEPT !.pastBids = Append1(@, oldBid.id)]
                    ELSE token
          token2 == SoldToken(token1, buyer.id, sale.id, permission)
          buyer1 == [buyer EXCEPT !.buys = Append1(@, sale.id)]
          seller1 == [seller EXCEPT !.sells = Append1(@, sale.id)]
      IN
      IF permission = QueryFailed
      THEN Abort([S1 EXCEPT !.bids = bids1])   \* bid.save() came before
      ELSE
      reconcile([S1 EXCEPT
                      \* buyer.save(); seller.save(): the later save wins
                      !.users = Save(Save(@, buyer1.id, buyer1),
                                     seller1.id, seller1),
                      !.sales = Save(@, sale.id, sale),
                      !.tokens = Save(@, tokenId, token2),
                      !.bids = bids1,
                      !.globalState = globalState1])

\* list.indexOf(x) === -1 ? list.concat([x]) : list
AddOnce(q, x) == IF x \in Range(q) THEN q ELSE Append1(q, x)

handleTransfer(S, tokenId, fromAddr, toAddr, permission, txh, ts) ==
  LET S1 == [S EXCEPT !.globalState = refreshGlobalState(@),
                      !.users = createOrFetchUserString(@, toAddr)]
      to == S1.users[toAddr]
      S2 == [S1 EXCEPT !.users = createOrFetchUserString(@, fromAddr)]
      from == S2.users[fromAddr]
  IN
  IF ~getOrInitialiseToken(S2.tokens, tokenId)
  THEN Abort(S2)                           \* log.critical
  ELSE
    LET token == S2.tokens[tokenId]
        transfer == [id |-> <<tokenId, txh>>, tokenDetails |-> token.id,
                     to |-> to.id, from |-> from.id, timestamp |-> ts]
    IN
    IF permission = QueryFailed
    THEN Abort(S2)                         \* nothing of the token is saved yet
    ELSE
    LET
        token1 == [token EXCEPT
                     !.permissionedAddress = permission,
                     !.owner = to.id,
                     !.currentBuyPrice = 0,
                     !.lastTransfer = transfer.id,
                     !.allTransfers = Append1(@, transfer.id),
                     !.pastOwners = AddOnce(@, from.id)]
        to1 == IF token.isMaster
               THEN [to EXCEPT !.ownedMasters =
                            AddOnce(@, <<token.id, "Master">>)]
               ELSE [to EXCEPT !.ownerControllers =
                            AddOnce(@, <<token.id, "Controller">>)]
    IN reconcile([S2 EXCEPT
                    \* to.save(); from.save(): the later save wins
                    !.users = Save(Save(@, to1.id, to1), from.id, from),
                    !.transfers = Save(@, transfer.id, transfer),
                    !.tokens = Save(@, tokenId, token1)])

\* an update counter that is not advanced
NewNumberOfUpdatesStuck(controllerToken) == controllerToken.numberOfUpdates

NewNumberOfUpdates(controllerToken) == controllerToken.numberOfUpdates + 1

\* an average that divides by the count before the increment
AverageUpdateCostOldCount(controllerToken, updateCost) ==
  IF controllerToken.numberOfUpdates = 0
  THEN updateCost
  ELSE (controllerToken.averageUpdateCost * controllerToken.numberOfUpdates
          + updateCost) \div controllerToken.numberOfUpdates

\* the running average of the update cost, lines 174-182
AverageUpdateCost(controllerToken, updateCost) ==
  IF controllerToken.numberOfUpdates = 0
  THEN updateCost
  ELSE (controllerToken.averageUpdateCost * controllerToken.numberOfUpdates
          + updateCost) \div NewNumberOfUpdates(controllerToken)

\* the loop over the batch: R.levers is the lever store, R.leversUpdated the
\* list built so far, R.ok is FALSE once a lever id has no record
\* a lever update that stores the two values the wrong way round
UpdatedLeverSwapped(lever, previousValue, updatedValue, layerUpdateId) ==
  [lever EXCEPT !.previousValue = updatedValue,
                !.currentValue = previousValue,
                !.latestUpdate = layerUpdateId,
                !.numberOfUpdates = @ + 1]

\* the body of the loop, lines 202-205
UpdatedLever(lever, previousValue, updatedValue, layerUpdateId) ==
  [lever EXCEPT !.previousValue = previousValue,
                !.currentValue = updatedValue,
                !.latestUpdate = layerUpdateId,
                !.numberOfUpdates = @ + 1]

RECURSIVE UpdateLevers(_, _, _, _, _, _, _)
UpdateLevers(R, tokenId, layerUpdateId, leverIds, previousValues, updatedValues, i) ==
  IF i > Len(previousValues) THEN R
  ELSE IF ~Exists(R.levers, <<tokenId, leverIds[i]>>)
  THEN [R EXCEPT !.ok = FALSE]
  ELSE
    LET lever == R.levers[<<tokenId, leverIds[i]>>]
        lever1 == UpdatedLever(lever, previousValues[i], updatedValues[i],
                               layerUpdateId)
    IN UpdateLevers([R EXCEPT !.levers = Save(@, lever1.id, lever1),
                              !.leversUpdated = Append1(@, lever1.id)],
                    tokenId, layerUpdateId, leverIds, previousValues,
                    updatedValues, i + 1)

handleControlLeverUpdated(S, tokenId, gasPrice, gasUsed, priorityTip, numRemainingUpdates, leverIds, previousValues, updatedValues) ==
  LET updateCost == gasUsed * gasPrice
      S1 == [S EXCEPT !.globalState = refreshGlobalState(@)]
  IN
  IF ~getOrInitialiseToken(S1.tokens, tokenId)
  THEN Abort(S1)                           \* log.critical
  ELSE IF ~Exists(S1.controllers, <<tokenId, "Controller">>)
  THEN Abort(S1)                           \* numberOfUpdates of no controller
  ELSE
    LET token == S1.tokens[tokenId]
        controllerToken == S1.controllers[<<tokenId, "Controller">>]
        newNumberOfUpdates == NewNumberOfUpdates(controllerToken)
        layerUpdateId == <<tokenId, newNumberOfUpdates>>
        R == UpdateLevers([levers |-> S1.levers, leversUpdated |-> <<>>,
                           ok |-> TRUE],
                          tokenId, layerUpdateId, leverIds, previousValues,
                          updatedValues, 1)
        layerUpdate == [id |-> layerUpdateId,
                        updateNumber |-> newNumberOfUpdates,
                        gasPrice |-> gasPrice, gasUsed |-> gasUsed,
                        costInWei |-> updateCost,
                        priorityTip |-> priorityTip,
                        layer |-> controllerToken.id,
                        leversUpdated |-> R.leversUpdated]
        controller1 == [controllerToken EXCEPT
                          !.averageUpdateCost =
                               AverageUpdateCost(controllerToken, updateCost),
                          !.numberOfUpdates = newNumberOfUpdates,
                          !.numRemainingUpdates = numRemainingUpdates,
                          !.allUpdates = Append1(@, layerUpdateId),
                          !.lastUpdate = layerUpdateId]
    IN
    IF ~R.ok
    THEN Abort([S1 EXCEPT !.levers = R.levers])   \* a lever with no record
    ELSE [S1 EXCEPT !.levers = R.levers,
                    !.layerUpdates = Save(@, layerUpdate.id, layerUpdate),
                    !.controllers = Save(@, controller1.id, controller1),
                    !.tokens = Save(@, tokenId, token)]

\* ------------------------------------------------------------------------
\* The older handler set (mapping.ts), on a store of its own.  Its Token has
\* lastSalePrice and no pastBids, allSales or transfers; its handlers end
\* with linkMasterAndControllers alone.
\* ------------------------------------------------------------------------
mapping_handleBidProposed(S, tokenId, bidAmount, bidder, txh, ts) ==
  LET S1 == [S EXCEPT !.globalState = getOrInitialiseGlobalState(@),
                      !.users = createOrFetchUserString(@, bidder)]
  IN
  IF ~getOrInitialiseToken(S1.tokens, tokenId)
  THEN S1                                  \* log.warning
  ELSE
    LET token == S1.tokens[tokenId]
        user == S1.users[bidder]
        bid == [id |-> <<tokenId, txh>>, tokenDetails |-> tokenId,
                bidAmount |-> bidAmount, bidder |-> user.id,
                bidTimestamp |-> ts, bidActive |-> TRUE,
                bidAccepted |-> FALSE, BidWithdrawnTimestamp |-> NoTimestamp]
        bids1 == IF HasBid(S1, token)
                 THEN Save(S1.bids, token.currentBid,
                        [S1.bids[token.currentBid] EXCEPT !.bidActive = FALSE])
                 ELSE S1.bids
        user1 == [user EXCEPT !.bids = Append1(@, bid.id)]
        token1 == [token EXCEPT !.currentBid = bid.id]
    IN linkMasterAndControllers(
         [S1 EXCEPT !.users = Save(@, user1.id, user1),
                    !.tokens = Save(@, tokenId, token1),
                    !.bids = Save(bids1, bid.id, bid)])

mapping_handleBidWithdrawn(S, tokenId, ts) ==
  LET S1 == [S EXCEPT !.globalState = refreshGlobalState(@)] IN
  IF ~getOrInitialiseToken(S1.tokens, tokenId)
  THEN Abort(S1)                           \* log.critical
  ELSE
    LET token == S1.tokens[tokenId] IN
    IF ~HasBid(S1, token)
    THEN S1                                \* log.warning
    ELSE [S1 EXCEPT !.bids = Save(@, token.currentBid,
            [S1.bids[token.currentBid] EXCEPT
               !.bidActive = FALSE, !.BidWithdrawnTimestamp = ts])]

mapping_handleBuyPriceSet(S, tokenId, buyPrice) ==
  LET S1 == [S EXCEPT !.globalState = refreshGlobalState(@)] IN
  IF ~getOrInitialiseToken(S1.tokens, tokenId)
  THEN S1                                  \* log.warning
  ELSE linkMasterAndControllers(
         [S1 EXCEPT !.tokens = Save(@, tokenId,
            [S1.tokens[tokenId] EXCEPT !.currentBuyPrice = buyPrice])])

mapping_handlePermissionUpdated(S, tokenId, addressOfGranter, permissioned) ==
  LET S1 == [S EXCEPT !.globalState = getOrInitialiseGlobalState(@)] IN
  IF ~getOrInitialiseToken(S1.tokens, tokenId)
  THEN Abort(S1)                           \* log.critical
  ELSE
    LET token == S1.tokens[tokenId] IN
    linkMasterAndControllers(
      IF addressOfGranter = token.owner
      THEN [S1 EXCEPT !.tokens = Save(@, tokenId,
              [token EXCEPT !.permissionedAddress = permissioned])]
      ELSE S1)

\* a sale that leaves the bid standing as the token's current bid
mapping_SoldTokenKeepsBid(token, buyerId, salePrice, permission) ==
  [token EXCEPT !.owner = buyerId,
                !.lastSalePrice = salePrice,
                !.currentBuyPrice = 0,
                !.numberOfSales = @ + 1,
                !.tokenDidHaveFirstSale = TRUE,
                !.permissionedAddress = permission]

\* token.owner = buyer.id .. token.permissionedAddress, mapping.ts 322-334
mapping_SoldToken(token, buyerId, salePrice, permission) ==
  [token EXCEPT !.owner = buyerId,
                !.lastSalePrice = salePrice,
                !.currentBuyPrice = 0,
                !.numberOfSales = @ + 1,
                !.tokenDidHaveFirstSale = TRUE,
                !.currentBid = Null,
                !.permissionedAddress = permission]

mapping_handleTokenSale(S, tokenId, salePrice, buyerAddr, permission, ts) ==
  LET S1 == [S EXCEPT !.globalState = refreshGlobalState(@),
                      !.users = createOrFetchUserString(@, buyerAddr)]
      buyer == S1.users[buyerAddr]
  IN
  IF ~getOrInitialiseToken(S1.tokens, tokenId)
  THEN Abort(S1)                           \* token.owner of an absent token
  ELSE
    LET token == S1.tokens[tokenId] IN
    IF ~Exists(S1.users, token.owner)
    THEN Abort(S1)                         \* seller.id of an absent seller
    ELSE
      LET seller == S1.users[token.owner]
          tokenSaleNumber == token.numberOfSales + 1
          has == HasBid(S1, token)
          bid == S1.bids[token.currentBid]
          match == has /\ bid.bidAmount = salePrice /\ buyerAddr = bid.bidder
          sale == [id |-> <<tokenId, tokenSaleNumber>>,
                   tokenDetails |-> token.id, buyer |-> buyer.id,
                   seller |-> seller.id, salePrice |-> salePrice,
                   saleTimestamp |-> ts,
                   tokenSaleNumber |-> tokenSaleNumber,
                   isBidSale |-> match,
                   bidDetails |-> IF match THEN bid.id ELSE Null]
          bids1 == IF has
                   THEN Save(S1.bids, bid.id,
                          [bid EXCEPT
                             !.bidAccepted = IF match THEN TRUE ELSE @,
                             !.bidActive = FALSE])
                   ELSE S1.bids
          token1 == mapping_SoldToken(token, buyer.id, salePrice, permission)
          buyer1 == IF token.isMaster
                    THEN [buyer EXCEPT
                            !.ownedMasters = Append1(@, <<token.id, "Master">>),
                            !.buys = Append1(@, sale.id)]
                    ELSE [buyer EXCEPT
                            !.ownerControllers =
                               Append1(@, <<token.id, "Controller">>),
                            !.buys = Append1(@, sale.id)]
          seller1 == [seller EXCEPT !.sells = Append1(@, sale.id)]
      IN
      IF permission = QueryFailed
      THEN Abort([S1 EXCEPT !.bids = bids1])   \* bid.save() came before
      ELSE
      linkMasterAndControllers(
        [S1 EXCEPT
           \* buyer.save(); seller.save(): the later save wins
           !.users = Save(Save(@, buyer1.id, buyer1), seller1.id, seller1),
           !.sales = Save(@, sale.id, sale),
           !.tokens = Save(@, tokenId, token1),
           !.bids = bids1])

RECURSIVE mapping_UpdateLevers(_, _, _, _, _, _, _)
mapping_UpdateLevers(R, tokenId, layerUpdateId, leverIds, previousValues, updatedValues, i) ==
  IF i > Len(previousValues) THEN R
  ELSE IF ~Exists(R.levers, <<tokenId, leverIds[i]>>)
  THEN [R EXCEPT !.ok = FALSE]
  ELSE
    LET lever == R.levers[<<tokenId, leverIds[i]>>]
        lever1 == [lever EXCEPT !.previousValue = previousValues[i],
                                !.currentValue = updatedValues[i],
                                !.latestUpdate = layerUpdateId,
                                !.numberOfUpdates = @ + 1]
    IN mapping_UpdateLevers(
         [R EXCEPT !.levers = Save(@, lever1.id, lever1),
                   !.leversUpdated = Append1(@, lever1.id)],
         tokenId, layerUpdateId, leverIds, previousValues, updatedValues,
         i + 1)

mapping_handleControlLeverUpdated(S, tokenId, gasPrice, gasUsed, priorityTip, numRemainingUpdates, leverIds, previousValues, updatedValues) ==
  LET S1 == [S EXCEPT !.globalState = refreshGlobalState(@)] IN
  IF ~getOrInitialiseToken(S1.tokens, tokenId)
  THEN Abort(S1)                           \* log.critical
  ELSE IF ~Exists(S1.controllers, <<tokenId, "Controller">>)
  THEN Abort(S1)                           \* numberOfUpdates of no controller
  ELSE
    LET controllerToken == S1.controllers[<<tokenId, "Controller">>]
        newNumberOfUpdates == controllerToken.numberOfUpdates + 1
        layerUpdateId == <<tokenId, newNumberOfUpdates>>
        R == mapping_UpdateLevers(
               [levers |-> S1.levers, leversUpdated |-> <<>>, ok |-> TRUE],
               tokenId, layerUpdateId, leverIds, previousValues,
               updatedValues, 1)
        layerUpdate == [id |-> layerUpdateId,
                        updateNumber |-> newNumberOfUpdates,
                        gasPrice |-> gasPrice, gasUsed |-> gasUsed,
                        costInWei |-> gasPrice * gasUsed,
                        priorityTip |-> priorityTip,
                        layer |-> controllerToken.id,
                        leversUpdated |-> R.leversUpdated]
        controller1 == [controllerToken EXCEPT
                          !.numberOfUpdates = newNumberOfUpdates,
                          !.numRemainingUpdates = numRemainingUpdates]
    IN
    IF ~R.ok
    THEN Abort([S1 EXCEPT !.levers = R.levers])   \* a lever with no record
    ELSE [S1 EXCEPT !.levers = R.levers,
                    !.layerUpdates = Save(@, layerUpdate.id, layerUpdate),
                    !.controllers = Save(@, controller1.id, controller1)]

\* ------------------------------------------------------------------------
\* The run: events are delivered one at a time, each fully processed
\* ------------------------------------------------------------------------
NoEvent == [kind |-> "none", tokenId |-> 0, amount |-> 0, actor |-> "",
            other |-> "", txHash |-> 0, batch |-> <<>>]

Event(kind, tokenId, amount, actor, other, txh) ==
  [kind |-> kind, tokenId |-> tokenId, amount |-> amount, actor |-> actor,
   other |-> other, txHash |-> txh, batch |-> <<>>]

Cur ==
  [globalState |-> globalState, users |-> users, tokens |-> tokens,
   bids |-> bids, sales |-> sales, transfers |-> transfers,
   controllers |-> controllers, levers |-> levers,
   layerUpdates |-> layerUpdates, masterLayers |-> masterLayers,
   halted |-> halted, reconciled |-> FALSE]

\* the store after handleCreatorWhitelisted(tokenId = 1, layerCount = 1)
Init ==
  /\ globalState = [InitialGlobalState EXCEPT
                      !.latestMasterTokenId = MasterId,
                      !.currentExpectedTokenSupply = MasterId + 1 + 1]
  /\ users = Save(<<>>, Creator, NewUser(Creator))
  /\ tokens = Save(Save(<<>>, MasterId, NewToken(MasterId, TRUE, Creator)),
                   ControllerId, NewToken(ControllerId, FALSE, Creator))
  /\ bids = <<>>
  /\ sales = <<>>
  /\ transfers = <<>>
  /\ controllers = Save(<<>>, <<ControllerId, "Controller">>,
                        NewController(ControllerId))
  /\ levers = [id \in {ControllerId} \X LeverIds |-> NewLever(id[1], id[2])]
  /\ layerUpdates = <<>>
  /\ masterLayers = <<>>
  /\ halted = FALSE
  /\ seq = 0
  /\ txHash = 1
  /\ lastEvent = NoEvent
  /\ liveBid = [t \in TokenIds |-> Null]
  /\ reconciled = FALSE
  /\ older = [globalState |-> globalState, users |-> users,
              tokens |-> [t \in DOMAIN tokens |->
                            tokens[t] @@ [lastSalePrice |-> 0]],
              bids |-> bids, sales |-> sales, transfers |-> transfers,
              controllers |-> controllers, levers |-> levers,
              layerUpdates |-> layerUpdates, masterLayers |-> masterLayers,
              halted |-> FALSE, reconciled |-> FALSE]

\* the transaction of the next event: the current one or a new one
TxOf(newTx) == IF newTx THEN txHash + 1 ELSE txHash

\* R is the handler's result on Cur, O the older handler's result on older
DeliverBoth(bound, R, O, ev, live) ==
  /\ ~halted
  /\ seq < bound
  /\ seq' = seq + 1
  /\ txHash' = ev.txHash
  /\ lastEvent' = ev
  /\ liveBid' = live
  /\ globalState' = R.globalState
  /\ users' = R.users
  /\ tokens' = R.tokens
  /\ bids' = R.bids
  /\ sales' = R.sales
  /\ transfers' = R.transfers
  /\ controllers' = R.controllers
  /\ levers' = R.levers
  /\ layerUpdates' = R.layerUpdates
  /\ masterLayers' = R.masterLayers
  /\ halted' = R.halted
  /\ reconciled' = R.reconciled
  /\ older' = O

\* the event is given to the complete handler set alone
Deliver(bound, R, ev, live) == DeliverBoth(bound, R, older, ev, live)

\* Each event kind, over the token ids and the inputs it may carry.  Only
\* the events whose records are keyed by the transaction hash choose the
\* transaction; the others ride in the current one.
BidProposed(bound, ids, offers) ==
  \E tokenId \in ids, offer \in offers, newTx \in BOOLEAN :
    LET txh == TxOf(newTx) IN
    Deliver(bound,
            handleBidProposed(Cur, tokenId, offer[1], offer[2], txh, txh),
            Event("BidProposed", tokenId, offer[1], offer[2], "", txh),
            [liveBid EXCEPT ![tokenId] = <<tokenId, txh>>])

BidWithdrawn(bound, ids) ==
  \E tokenId \in ids :
    Deliver(bound,
            handleBidWithdrawn(Cur, tokenId, txHash),
            Event("BidWithdrawn", tokenId, 0, "", "", txHash),
            [liveBid EXCEPT ![tokenId] = Null])

BuyPriceSet(bound, ids, prices) ==
  \E tokenId \in ids, buyPrice \in prices :
    Deliver(bound,
            handleBuyPriceSet(Cur, tokenId, buyPrice),
            Event("BuyPriceSet", tokenId, buyPrice, "", "", txHash),
            liveBid)

PermissionUpdated(bound, ids, granters, grantees) ==
  \E tokenId \in ids, addressOfGranter \in granters,
     permissioned \in grantees :
    Deliver(bound,
            handlePermissionUpdated(Cur, tokenId, addressOfGranter,
                                    permissioned),
            Event("PermissionUpdated", tokenId, 0, addressOfGranter,
                  permissioned, txHash),
            liveBid)

PlatformSalePercentageUpdated(bound, ids, pairs) ==
  \E tokenId \in ids, pp \in pairs :
    Deliver(bound,
            handlePlatformSalePercentageUpdated(Cur, tokenId, pp[1], pp[2]),
            Event("PlatformSalePercentageUpdated", tokenId, pp[1], "", "",
                  txHash),
            liveBid)

\* what the source reports as permissioned for (tokenId, actor)
Permissions == {ZeroAddress, "u1"}

TokenSale(bound, ids, prices, buyers, permissions) ==
  \E tokenId \in ids, salePrice \in prices, buyer \in buyers,
     permission \in permissions :
    Deliver(bound,
            handleTokenSale(Cur, tokenId, salePrice, buyer, permission,
                            txHash),
            Event("TokenSale", tokenId, salePrice, buyer, permission, txHash),
            [liveBid EXCEPT ![tokenId] = Null])

\* the sender of a transfer is the owner of the token (the creator stands
\* in when the token has no record); a transfer opens a transaction
Transfer(bound, ids, recipients, permissions) ==
  \E tokenId \in ids, to \in recipients, permission \in permissions :
    LET txh == TxOf(TRUE)
        from == IF Exists(tokens, tokenId) THEN tokens[tokenId].owner
                ELSE Creator
    IN
    Deliver(bound,
            handleTransfer(Cur, tokenId, from, to, permission, txh, txh),
            Event("Transfer", tokenId, 0, to, from, txh),
            liveBid)

\* a batch: lever ids, previous values, updated values, of equal length
Batches ==
  { << <<0>>, <<0>>, <<1>> >>,
    << <<1, 0>>, <<0, 1>>, <<2, 2>> >>,
    << <<0, MissingLeverId>>, <<0, 0>>, <<1, 1>> >>,
    << <<0, 0>>, <<0, 1>>, <<1, 2>> >> }

ControlLeverUpdated(bound, ids, gasPrices, gasUseds, batches) ==
  \E tokenId \in ids, gasPrice \in gasPrices, gasUsed \in gasUseds,
     batch \in batches :
    Deliver(bound,
            handleControlLeverUpdated(Cur, tokenId, gasPrice, gasUsed, 0, 5,
                                      batch[1], batch[2], batch[3]),
            [Event("ControlLeverUpdated", tokenId, gasUsed * gasPrice, "",
                   "", txHash) EXCEPT !.batch = batch],
            liveBid)

\* -- every event kind, on the stored tokens and on an absent one ----------
Offers == {<<1, "u1">>, <<2, "u2">>}

ProposeAny == BidProposed(MaxEvents, TokenIds, Offers)
WithdrawAny == BidWithdrawn(MaxEvents, TokenIds)
BuyPriceAny == BuyPriceSet(MaxEvents, TokenIds, {1})
PermissionAny == PermissionUpdated(MaxEvents, TokenIds, Addresses, {"u2"})
PercentageAny == PlatformSalePercentageUpdated(MaxEvents, TokenIds, {<<5, 1>>})
SaleAny ==
  TokenSale(MaxEvents, TokenIds, Amounts, Addresses,
            Permissions \cup {QueryFailed})
TransferAny ==
  Transfer(MaxEvents, TokenIds, Addresses, Permissions \cup {QueryFailed})
LeverAny == ControlLeverUpdated(MaxEvents, TokenIds, {1, 2}, {1}, Batches)

Next ==
  \/ ProposeAny
  \/ WithdrawAny
  \/ BuyPriceAny
  \/ PermissionAny
  \/ PercentageAny
  \/ SaleAny
  \/ TransferAny
  \/ LeverAny

Spec == Init /\ [][Next]_vars

\* -- bids, prices, sales and transfers on the two stored tokens -----------------
StoredIds == {MasterId, ControllerId}

Propose == BidProposed(MaxBidEvents, StoredIds, Offers)
Withdraw == BidWithdrawn(MaxBidEvents, StoredIds)
Sale == TokenSale(MaxBidEvents, StoredIds, Amounts, Addresses, Permissions)
Move == Transfer(MaxBidEvents, StoredIds, Addresses, Permissions)
Price == BuyPriceSet(MaxBidEvents, StoredIds, {1})

NextBid == Propose \/ Withdraw \/ Sale \/ Move \/ Price

SpecBid == Init /\ [][NextBid]_vars

\* -- the control-lever aggregator ----------------------------------------
GasPrices == {1, 2, 3}
GasUseds == {1, 10}

LeverUpdate ==
  ControlLeverUpdated(MaxUpdates, TokenIds, GasPrices, GasUseds, Batches)

NextLever == LeverUpdate

SpecLever == Init /\ [][NextLever]_vars

\* -- the two handler sets side by side, without transfers ------------------
MaxBothEvents == 3

BothPropose ==
  \E tokenId \in TokenIds, offer \in Offers, newTx \in BOOLEAN :
    LET txh == TxOf(newTx) IN
    DeliverBoth(MaxBothEvents,
      handleBidProposed(Cur, tokenId, offer[1], offer[2], txh, txh),
      mapping_handleBidProposed(older, tokenId, offer[1], offer[2], txh, txh),
      Event("BidProposed", tokenId, offer[1], offer[2], "", txh),
      [liveBid EXCEPT ![tokenId] = <<tokenId, txh>>])

BothWithdraw ==
  \E tokenId \in TokenIds :
    DeliverBoth(MaxBothEvents,
      handleBidWithdrawn(Cur, tokenId, txHash),
      mapping_handleBidWithdrawn(older, tokenId, txHash),
      Event("BidWithdrawn", tokenId, 0, "", "", txHash),
      [liveBid EXCEPT ![tokenId] = Null])

BothPrice ==
  \E tokenId \in TokenIds, buyPrice \in {1} :
    DeliverBoth(MaxBothEvents,
      handleBuyPriceSet(Cur, tokenId, buyPrice),
      mapping_handleBuyPriceSet(older, tokenId, buyPrice),
      Event("BuyPriceSet", tokenId, buyPrice, "", "", txHash),
      liveBid)

BothPermission ==
  \E tokenId \in TokenIds, addressOfGranter \in Addresses :
    DeliverBoth(MaxBothEvents,
      handlePermissionUpdated(Cur, tokenId, addressOfGranter, "u2"),
      mapping_handlePermissionUpdated(older, tokenId, addressOfGranter, "u2"),
      Event("PermissionUpdated", tokenId, 0, addressOfGranter, "u2", txHash),
      liveBid)

BothSale ==
  \E tokenId \in TokenIds, salePrice \in Amounts, buyer \in Addresses,
     permission \in {ZeroAddress, QueryFailed} :
    DeliverBoth(MaxBothEvents,
      handleTokenSale(Cur, tokenId, salePrice, buyer, permission, txHash),
      mapping_handleTokenSale(older, tokenId, salePrice, buyer, permission,
                              txHash),
      Event("TokenSale", tokenId, salePrice, buyer, permission, txHash),
      [liveBid EXCEPT ![tokenId] = Null])

BothLever ==
  \E tokenId \in {ControllerId, AbsentId}, batch \in Batches :
    DeliverBoth(MaxBothEvents,
      handleControlLeverUpdated(Cur, tokenId, 2, 1, 0, 5,
                                batch[1], batch[2], batch[3]),
      mapping_handleControlLeverUpdated(older, tokenId, 2, 1, 0, 5,
                                        batch[1], batch[2], batch[3]),
      [Event("ControlLeverUpdated", tokenId, 2, "", "", txHash)
         EXCEPT !.batch = batch],
      liveBid)

NextBoth ==
  \/ BothPropose
  \/ BothWithdraw
  \/ BothPrice
  \/ BothPermission
  \/ BothSale
  \/ BothLever

SpecBoth == Init /\ [][NextBoth]_vars

\* ------------------------------------------------------------------------
\* Properties
\* ------------------------------------------------------------------------
BidsOf(t) == {b \in DOMAIN bids : bids[b].tokenDetails = t}
ActiveBidsOf(t) == {b \in BidsOf(t) : bids[b].bidActive}
SalesOf(t) == {x \in DOMAIN sales : sales[x].tokenDetails = t}

\* C1: every token has at most one Bid with bidActive = true; an active bid
\* is the most recently proposed bid of the token that has not since been
\* withdrawn or sold, and token.currentBid points to it; and such a standing
\* bid, when there is one, is active.
SingleActiveBid ==
  \A t \in DOMAIN tokens :
    /\ Cardinality(ActiveBidsOf(t)) <= 1
    /\ \A b \in ActiveBidsOf(t) : b = liveBid[t] /\ tokens[t].currentBid = b
    /\ liveBid[t] # Null => liveBid[t] \in ActiveBidsOf(t)

\* a token with a standing active bid and an earlier, superseded one
SingleActiveBidWitness ==
  \E t \in DOMAIN tokens : \E b1 \in BidsOf(t), b2 \in BidsOf(t) :
    /\ b1 # b2
    /\ ~bids[b1].bidActive
    /\ bids[b2].bidActive
    /\ liveBid[t] = b2

\* C2: the Sale records of a token are numbered 1..K in the order the sales
\* were applied, K = Token.numberOfSales = the number of Sale records of the
\* token, and every TokenSale event applied to the token takes K to K + 1
\* and stores the Sale numbered K + 1, while no other event changes K.
SaleNumbersInOrder(t) ==
  LET K == tokens[t].numberOfSales IN
  /\ Cardinality(SalesOf(t)) = K
  /\ SalesOf(t) = {<<t, n>> : n \in 1..K}
  /\ \A x \in SalesOf(t) : sales[x].tokenSaleNumber = x[2]
  /\ tokens[t].allSales = [n \in 1..K |-> <<t, n>>]
  /\ \A m \in 1..K, n \in 1..K :
       m < n => sales[<<t, m>>].saleTimestamp <= sales[<<t, n>>].saleTimestamp

SaleStep(t) ==
  IF lastEvent'.kind = "TokenSale" /\ lastEvent'.tokenId = t /\ ~halted'
  THEN /\ tokens'[t].numberOfSales = tokens[t].numberOfSales + 1
       /\ <<t, tokens'[t].numberOfSales>> \notin DOMAIN sales
       /\ <<t, tokens'[t].numberOfSales>> \in DOMAIN sales'
       /\ tokens'[t].lastSale = <<t, tokens'[t].numberOfSales>>
  ELSE tokens'[t].numberOfSales = tokens[t].numberOfSales

SaleNumbering ==
  /\ [](\A t \in DOMAIN tokens : SaleNumbersInOrder(t))
  /\ [][\A t \in DOMAIN tokens : SaleStep(t)]_vars

\* a token sold twice, with another event in between
SaleNumberingWitness ==
  \E t \in DOMAIN tokens :
    /\ tokens[t].numberOfSales = 2
    /\ sales[<<t, 1>>].saleTimestamp < sales[<<t, 2>>].saleTimestamp

\* -- control-lever aggregator ---------------------------------------------
UpdatesOf(c) == {u \in DOMAIN layerUpdates : layerUpdates[u].layer = c}

\* the costs applied to a controller, in the order of its updates
CostsOf(c) ==
  [n \in 1..controllers[c].numberOfUpdates |->
     layerUpdates[controllers[c].allUpdates[n]].costInWei]

RECURSIVE SumSeq(_)
SumSeq(q) == IF q = <<>> THEN 0 ELSE q[1] + SumSeq(Tail(q))

\* C3: after the n-th update of a controller, n >= 1, averageUpdateCost is
\* floor((c1 + ... + cn) / n) for the costs c1..cn applied to it.
RunningAverageIsMean ==
  \A c \in DOMAIN controllers :
    controllers[c].numberOfUpdates >= 1 =>
      controllers[c].averageUpdateCost =
        SumSeq(CostsOf(c)) \div controllers[c].numberOfUpdates

\* a ControlLeverUpdated event was applied to controller c in this step
Updated(c) ==
  /\ lastEvent'.kind = "ControlLeverUpdated"
  /\ <<lastEvent'.tokenId, "Controller">> = c
  /\ ~halted'

\* C4: every applied ControlLeverUpdated event takes the average to
\* (oldAvg * oldCount + newCost) div (oldCount + 1); with oldCount = 0 the
\* average is the new cost; costs 10, 20, 30 give 10, 15, 20.
IncrementalAverageStep ==
  /\ [][\A c \in DOMAIN controllers : Updated(c) =>
          LET oldCount == controllers[c].numberOfUpdates
              oldAvg == controllers[c].averageUpdateCost
              newCost == lastEvent'.amount
          IN /\ controllers'[c].averageUpdateCost =
                  (oldAvg * oldCount + newCost) \div (oldCount + 1)
             /\ oldCount = 0 => controllers'[c].averageUpdateCost = newCost
             /\ newCost = layerUpdates'[controllers'[c].lastUpdate].costInWei
       ]_vars
  /\ [](\A c \in DOMAIN controllers :
          /\ CostsOf(c) = <<10>> => controllers[c].averageUpdateCost = 10
          /\ CostsOf(c) = <<10, 20>> => controllers[c].averageUpdateCost = 15
          /\ CostsOf(c) = <<10, 20, 30>> =>
               controllers[c].averageUpdateCost = 20)

\* the controller after costs 10, 20, 30
IncrementalAverageWitness ==
  \E c \in DOMAIN controllers :
    CostsOf(c) = <<10, 20, 30>> /\ controllers[c].averageUpdateCost = 20

\* C5: numberOfUpdates of a controller is the number of LayerUpdate records
\* under it, their update numbers are exactly 1..numberOfUpdates, and every
\* applied ControlLeverUpdated event stores exactly one new LayerUpdate,
\* numbered with the count right after the increment, whatever the number
\* of levers in its batch.
UpdateNumbering ==
  /\ [](\A c \in DOMAIN controllers :
          LET n == controllers[c].numberOfUpdates IN
          /\ Cardinality(UpdatesOf(c)) = n
          /\ {layerUpdates[u].updateNumber : u \in UpdatesOf(c)} = 1..n
          /\ controllers[c].allUpdates = [k \in 1..n |-> <<c[1], k>>]
          /\ \A u \in UpdatesOf(c) : u = <<c[1], layerUpdates[u].updateNumber>>)
  /\ [][\A c \in DOMAIN controllers :
          IF Updated(c)
          THEN /\ controllers'[c].numberOfUpdates =
                    controllers[c].numberOfUpdates + 1
               /\ Cardinality(DOMAIN layerUpdates') =
                    Cardinality(DOMAIN layerUpdates) + 1
               /\ controllers'[c].lastUpdate \notin DOMAIN layerUpdates
               /\ layerUpdates'[controllers'[c].lastUpdate].updateNumber =
                    controllers'[c].numberOfUpdates
          ELSE /\ controllers'[c].numberOfUpdates =
                    controllers[c].numberOfUpdates
               /\ UpdatesOf(c)' = UpdatesOf(c)
       ]_vars

\* a controller with two updates, the later one from a batch of two levers
UpdateNumberingWitness ==
  \E c \in DOMAIN controllers :
    /\ controllers[c].numberOfUpdates = 2
    /\ Len(layerUpdates[<<c[1], 2>>].leversUpdated) = 2

\* -- sales and transfers ---------------------------------------------------
\* event kind k was applied to stored token t in this step
Applied(k, t) ==
  /\ lastEvent'.kind = k
  /\ lastEvent'.tokenId = t
  /\ t \in DOMAIN tokens
  /\ ~halted'

\* C6: a TokenSale on a token with a current bid gives the sale
\* isBidSale = true, a reference to the bid, and the bid bidAccepted = true
\* exactly when the bid amount is the sale price and the bidder is the
\* buyer; otherwise (or with no current bid) the sale has isBidSale = false
\* and no bid reference, and the bid is inactive, archived in pastBids and
\* not accepted.
BidSaleClassification ==
  [][\A t \in DOMAIN tokens : Applied("TokenSale", t) =>
       LET sale == sales'[tokens'[t].lastSale]
           b == tokens[t].currentBid
       IN IF b # Null /\ b \in DOMAIN bids
          THEN LET both == /\ bids[b].bidAmount = lastEvent'.amount
                           /\ bids[b].bidder = lastEvent'.actor
               IN /\ sale.isBidSale <=> both
                  /\ (sale.bidDetails = b) <=> both
                  /\ bids'[b].bidAccepted <=> both
                  /\ ~both => sale.bidDetails = Null
                  /\ ~bids'[b].bidActive
                  /\ b \in Range(tokens'[t].pastBids)
          ELSE ~sale.isBidSale /\ sale.bidDetails = Null
    ]_vars

\* a sale at the bid's amount to somebody else than the bidder: direct sale
BidSaleClassificationWitness ==
  /\ lastEvent.kind = "TokenSale"
  /\ ~halted
  /\ \E b \in DOMAIN bids :
       /\ bids[b].tokenDetails = lastEvent.tokenId
       /\ bids[b].bidAmount = lastEvent.amount
       /\ bids[b].bidder # lastEvent.actor
       /\ ~bids[b].bidAccepted
       /\ ~bids[b].bidActive
       /\ b \in Range(tokens[lastEvent.tokenId].pastBids)
       /\ ~sales[tokens[lastEvent.tokenId].lastSale].isBidSale

\* C7: after every Transfer event on a token, the owner is the recipient,
\* currentBuyPrice is zero, currentBid is null, and the bid that was current
\* before is archived in pastBids and still in the store.
TransferClearsBid ==
  [][\A t \in DOMAIN tokens : Applied("Transfer", t) =>
       /\ tokens'[t].owner = lastEvent'.actor
       /\ tokens'[t].currentBuyPrice = 0
       /\ tokens'[t].currentBid = Null
       /\ tokens[t].currentBid # Null =>
            /\ tokens[t].currentBid \in Range(tokens'[t].pastBids)
            /\ tokens[t].currentBid \in DOMAIN bids'
    ]_vars

\* C8: after every TokenSale event the owner is the buyer, currentBuyPrice
\* is zero, currentBid is null, tokenDidHaveFirstSale is true and
\* permissionedAddress is what the source reported for (tokenId, buyer).
PostSaleTokenState ==
  (lastEvent.kind = "TokenSale" /\ ~halted
     /\ lastEvent.tokenId \in DOMAIN tokens) =>
    LET token == tokens[lastEvent.tokenId] IN
    /\ token.owner = lastEvent.actor
    /\ token.currentBuyPrice = 0
    /\ token.currentBid = Null
    /\ token.tokenDidHaveFirstSale
    /\ token.permissionedAddress = lastEvent.other

\* a buyback: the token returns to the creator, whose permission the source
\* still reports
PostSaleTokenStateWitness ==
  /\ lastEvent.kind = "TokenSale"
  /\ ~halted
  /\ lastEvent.actor = Creator
  /\ lastEvent.other = Creator
  /\ tokens[lastEvent.tokenId].numberOfSales = 2
  /\ tokens[lastEvent.tokenId].permissionedAddress = Creator
  /\ sales[<<lastEvent.tokenId, 1>>].buyer # Creator

\* C9: a BidProposed for a token whose current bid B1 is active leaves B1
\* inactive and in pastBids, the new bid B2 active and not accepted,
\* token.currentBid = B2, and B2 last in the bidder's bid list.
SupersedeOnPropose ==
  [][\A t \in DOMAIN tokens : Applied("BidProposed", t) =>
       LET b1 == tokens[t].currentBid
           b2 == <<t, lastEvent'.txHash>>
       IN (b1 # Null /\ b1 \in DOMAIN bids /\ bids[b1].bidActive) =>
            /\ ~bids'[b1].bidActive
            /\ b1 \in Range(tokens'[t].pastBids)
            /\ b2 \in DOMAIN bids'
            /\ bids'[b2].bidActive
            /\ ~bids'[b2].bidAccepted
            /\ tokens'[t].currentBid = b2
            /\ users'[lastEvent'.actor].bids =
                 Append1(IF lastEvent'.actor \in DOMAIN users
                         THEN users[lastEvent'.actor].bids ELSE <<>>, b2)
    ]_vars

\* Supersede on propose when the new bid has another key than the bid it
\* supersedes (the two proposals are in different transactions): the
\* superseded bid ends inactive and archived, the new one active and current.
SupersedeOnProposeOtherKey ==
  [][\A t \in DOMAIN tokens : Applied("BidProposed", t) =>
       LET b1 == tokens[t].currentBid
           b2 == <<t, lastEvent'.txHash>>
       IN (b1 # Null /\ b1 \in DOMAIN bids /\ bids[b1].bidActive /\ b1 # b2)
            => /\ ~bids'[b1].bidActive
               /\ b1 \in Range(tokens'[t].pastBids)
               /\ bids'[b2].bidActive
               /\ ~bids'[b2].bidAccepted
               /\ tokens'[t].currentBid = b2
    ]_vars

\* -- fatal consistency errors ---------------------------------------------
MutatingKinds ==
  {"BidProposed", "BidWithdrawn", "BuyPriceSet", "ControlLeverUpdated",
   "PermissionUpdated", "PlatformSalePercentageUpdated", "TokenSale",
   "Transfer"}

\* C10: a mutating event that references a token absent from the store
\* stops the run, and writes nothing: the store stays as the event prefix
\* before it left it.
AbsentTokenStopsRun ==
  [][(lastEvent'.kind \in MutatingKinds /\ seq' = seq + 1
        /\ lastEvent'.tokenId \notin DOMAIN tokens) =>
       (halted' /\ store' = store)
    ]_vars

\* C11: an event whose processing fails part-way leaves no write behind:
\* every entity, the levers earlier in the same batch included, is as it was
\* before the event.
AllOrNothing == [][halted' => store' = store]_vars

\* C12: a BidWithdrawn for a token that has a record but no current bid
\* completes without aborting and leaves every Bid and Token record as it
\* was; the run goes on with the next event.
BenignAbsentBid ==
  [][\A t \in DOMAIN tokens :
        (/\ lastEvent'.kind = "BidWithdrawn"
         /\ lastEvent'.tokenId = t
         /\ ~HasBid(Cur, tokens[t]))
        => (~halted' /\ bids' = bids /\ tokens' = tokens)]_vars

\* a withdrawal found no bid, after earlier events left bids in the store,
\* and the run is open to the next event
BenignAbsentBidWitness ==
  /\ lastEvent.kind = "BidWithdrawn"
  /\ lastEvent.tokenId \in DOMAIN tokens
  /\ tokens[lastEvent.tokenId].currentBid = Null
  /\ bids # <<>>
  /\ ~halted
  /\ seq < MaxBidEvents

\* C13: after a sale is recorded, the sale's id is in the buyer's buys list
\* and in the seller's sells list, also when buyer and seller are one User.
SaleRelationshipLists ==
  \A s \in DOMAIN sales :
    /\ s \in Range(users[sales[s].buyer].buys)
    /\ s \in Range(users[sales[s].seller].sells)

\* the events whose handlers can change the bid state or a price
BidStateKinds ==
  {"BidProposed", "BidWithdrawn", "BuyPriceSet", "PermissionUpdated",
   "PlatformSalePercentageUpdated", "TokenSale", "Transfer"}

\* C14: every handler of a bid, price, permission, percentage, sale or
\* transfer event that runs to its end has called the reconciler as its
\* last step, whichever path it took.
ReconcilerRunsLast ==
  [][(lastEvent'.kind \in BidStateKinds /\ seq' = seq + 1 /\ ~halted')
       => reconciled']_vars

WithdrawEffect ==
  [][\A t \in DOMAIN tokens :
        (/\ lastEvent'.kind = "BidWithdrawn"
         /\ lastEvent'.tokenId = t
         /\ HasBid(Cur, tokens[t]))
        => LET b == tokens[t].currentBid IN
           /\ ~halted'
           /\ DOMAIN bids' = DOMAIN bids
           /\ ~bids'[b].bidActive
           /\ bids'[b].BidWithdrawnTimestamp = lastEvent'.txHash
           /\ tokens'[t].pastBids = Append1(tokens[t].pastBids, b)
           /\ bids'[b].bidAccepted = bids[b].bidAccepted
           /\ bids'[b].bidAmount = bids[b].bidAmount
           /\ bids'[b].bidder = bids[b].bidder
           /\ \A o \in DOMAIN bids \ {b} : bids'[o] = bids[o]]_vars

\* a bid was withdrawn in a later transaction than the one that proposed it,
\* while another bid stands in the store
WithdrawEffectWitness ==
  /\ lastEvent.kind = "BidWithdrawn"
  /\ ~halted
  /\ \E b \in DOMAIN bids :
       /\ b[1] = lastEvent.tokenId
       /\ bids[b].BidWithdrawnTimestamp = lastEvent.txHash
       /\ bids[b].BidWithdrawnTimestamp # bids[b].bidTimestamp
       /\ ~bids[b].bidActive
       /\ \E o \in DOMAIN bids \ {b} : bids[o].bidActive

\* the number of places of q that hold x
Occurrences(q, x) == Cardinality({i \in 1..Len(q) : q[i] = x})

\* i is the last place of q that holds q[i]
IsLastOccurrence(q, i) == \A j \in (i + 1)..Len(q) : q[j] # q[i]

\* the effect of an applied batch on token t; the values of index i are
\* required of the lever for every index, or for the last index of each
\* lever id only
LeverBatchStep(t, everyIndex) ==
  (/\ lastEvent'.kind = "ControlLeverUpdated"
   /\ lastEvent'.tokenId = t
   /\ ~halted')
  => LET leverIds == lastEvent'.batch[1]
         previousValues == lastEvent'.batch[2]
         updatedValues == lastEvent'.batch[3]
         u == <<t, controllers[<<t, "Controller">>].numberOfUpdates + 1>>
     IN
     /\ u \in DOMAIN layerUpdates' \ DOMAIN layerUpdates
     /\ \A i \in 1..Len(leverIds) :
          LET id == <<t, leverIds[i]>> IN
          /\ (everyIndex \/ IsLastOccurrence(leverIds, i)) =>
               /\ levers'[id].previousValue = previousValues[i]
               /\ levers'[id].currentValue = updatedValues[i]
          /\ levers'[id].latestUpdate = u
          /\ levers'[id].numberOfUpdates =
               levers[id].numberOfUpdates + Occurrences(leverIds, leverIds[i])
     /\ layerUpdates'[u].leversUpdated =
          [i \in 1..Len(leverIds) |-> <<t, leverIds[i]>>]
     /\ layerUpdates'[u].costInWei =
          layerUpdates'[u].gasPrice * layerUpdates'[u].gasUsed
     /\ layerUpdates'[u].costInWei = lastEvent'.amount
     /\ \A l \in DOMAIN levers :
          (l[1] # t \/ l[2] \notin Range(leverIds)) => levers'[l] = levers[l]

\* C17 as stated: after an applied batch, for every index i the lever
\* leverIds[i] holds previousValues[i] and updatedValues[i], the batch's
\* LayerUpdate id, and one more update per occurrence; leversUpdated lists
\* the lever ids in batch order, the cost is gasPrice x gasUsed, and the
\* levers not named are unchanged.
LeverBatchEveryIndex ==
  [][\A t \in DOMAIN tokens : LeverBatchStep(t, TRUE)]_vars

\* C17 amended: the same, with the two values being those of the last
\* occurrence of each lever id in the batch.
LeverBatchLastOccurrence ==
  [][\A t \in DOMAIN tokens : LeverBatchStep(t, FALSE)]_vars

\* a batch that names one lever twice has been applied
LeverBatchWitness ==
  /\ lastEvent.kind = "ControlLeverUpdated"
  /\ ~halted
  /\ Occurrences(lastEvent.batch[1], 0) = 2
  /\ levers[<<lastEvent.tokenId, 0>>].numberOfUpdates >= 2
  /\ levers[<<lastEvent.tokenId, 0>>].currentValue = lastEvent.batch[3][2]

\* C18: a PermissionUpdated event sets the token's permissioned address to
\* the event's address when the granter is the token's owner at that
\* moment, and only then; from any other granter the Token is unchanged.
PermissionOwnerGated ==
  [][\A t \in DOMAIN tokens :
        (/\ lastEvent'.kind = "PermissionUpdated"
         /\ lastEvent'.tokenId = t)
        => /\ ~halted'
           /\ tokens' =
                IF lastEvent'.actor = tokens[t].owner
                THEN [tokens EXCEPT
                        ![t].permissionedAddress = lastEvent'.other]
                ELSE tokens]_vars

\* a granter who is not the owner asked for a permission the token does
\* not have, and the token was left without it
PermissionOwnerGatedWitness ==
  /\ lastEvent.kind = "PermissionUpdated"
  /\ lastEvent.tokenId \in DOMAIN tokens
  /\ lastEvent.actor # tokens[lastEvent.tokenId].owner
  /\ tokens[lastEvent.tokenId].permissionedAddress # lastEvent.other
  /\ ~halted

\* the ids of s are kept, and the records under them too
Kept(s, t) == DOMAIN s \subseteq DOMAIN t /\ \A x \in DOMAIN s : t[x] = s[x]

\* C19: no event deletes an entity of any type, and a Sale or a LayerUpdate,
\* once written, keeps every field through all later events.
HistoryAdditive ==
  [][/\ DOMAIN users \subseteq DOMAIN users'
     /\ DOMAIN tokens \subseteq DOMAIN tokens'
     /\ DOMAIN bids \subseteq DOMAIN bids'
     /\ DOMAIN transfers \subseteq DOMAIN transfers'
     /\ DOMAIN controllers \subseteq DOMAIN controllers'
     /\ DOMAIN levers \subseteq DOMAIN levers'
     /\ DOMAIN masterLayers \subseteq DOMAIN masterLayers'
     /\ Kept(sales, sales')
     /\ Kept(layerUpdates, layerUpdates')]_vars

\* a second sale or a second update of a token has been recorded next to the
\* first
HistoryAdditiveWitness ==
  \/ \E t \in DOMAIN tokens :
       /\ lastEvent.kind = "TokenSale"
       /\ {<<t, 1>>, <<t, 2>>} \subseteq DOMAIN sales
       /\ sales[<<t, 1>>].saleTimestamp <= sales[<<t, 2>>].saleTimestamp
  \/ \E t \in DOMAIN tokens :
       /\ lastEvent.kind = "ControlLeverUpdated"
       /\ {<<t, 1>>, <<t, 2>>} \subseteq DOMAIN layerUpdates

\* the records of s that belong to token t, by the token part of their key
OfToken(s, t) == {x \in DOMAIN s : x[1] = t}

\* C20: an event for token T leaves unchanged every Token, Bid, Sale,
\* TokenTransfer, TokenController, TokenControlLever and LayerUpdate record
\* that belongs to another token.
PerTokenScoping ==
  [][seq' = seq + 1 =>
       \A o \in TokenIds \ {lastEvent'.tokenId} :
         /\ o \in DOMAIN tokens => (o \in DOMAIN tokens' /\ tokens'[o] = tokens[o])
         /\ \A b \in DOMAIN bids :
              bids[b].tokenDetails = o => (b \in DOMAIN bids' /\ bids'[b] = bids[b])
         /\ \A s \in DOMAIN sales :
              sales[s].tokenDetails = o => sales'[s] = sales[s]
         /\ \A x \in DOMAIN transfers :
              transfers[x].tokenDetails = o => transfers'[x] = transfers[x]
         /\ \A c \in OfToken(controllers, o) : controllers'[c] = controllers[c]
         /\ \A l \in OfToken(levers, o) : levers'[l] = levers[l]
         /\ \A u \in OfToken(layerUpdates, o) :
              layerUpdates'[u] = layerUpdates[u]]_vars

\* a bid was proposed on one token, in the transaction of the standing bid
\* of another token, and that bid is still the current one of its token
PerTokenScopingWitness ==
  /\ lastEvent.kind = "BidProposed"
  /\ ~halted
  /\ \E o \in DOMAIN tokens \ {lastEvent.tokenId} :
       /\ tokens[o].currentBid = <<o, lastEvent.txHash>>
       /\ tokens[o].currentBid \in DOMAIN bids
       /\ bids[tokens[o].currentBid].bidActive
       /\ bids[tokens[o].currentBid].tokenDetails = o

\* the bid has been withdrawn
IsWithdrawn(bid) == ~bid.bidActive /\ bid.BidWithdrawnTimestamp # NoTimestamp

\* C21: once a Bid has been withdrawn, no later event sets bidAccepted on it
\* and no Sale recorded later is a bid sale that refers to it.
WithdrawnNeverAccepted ==
  [][\A b \in DOMAIN bids :
        IsWithdrawn(bids[b]) =>
          /\ bids'[b].bidAccepted = bids[b].bidAccepted
          /\ \A s \in DOMAIN sales' \ DOMAIN sales :
               ~(sales'[s].isBidSale /\ sales'[s].bidDetails = b)]_vars

\* C22: a token's pastBids holds no Bid id twice, and holds exactly the
\* bids of that token that are no longer active.
ArchivedOnce ==
  \A t \in DOMAIN tokens :
    /\ Cardinality(Range(tokens[t].pastBids)) = Len(tokens[t].pastBids)
    /\ Range(tokens[t].pastBids) =
         {b \in DOMAIN bids : bids[b].tokenDetails = t /\ ~bids[b].bidActive}

\* C23: when a Transfer of token T from A to B (A # B) has been processed and
\* the next event is the TokenSale of T with buyer B, the Sale recorded has
\* seller = A and buyer = B, and its id is in A's sells list.
SellerIsPreviousOwner ==
  [][\A t \in DOMAIN tokens :
        (/\ lastEvent.kind = "Transfer"
         /\ lastEvent.tokenId = t
         /\ lastEvent.actor # lastEvent.other
         /\ lastEvent'.kind = "TokenSale"
         /\ lastEvent'.tokenId = t
         /\ lastEvent'.actor = lastEvent.actor
         /\ ~halted')
        => \A s \in DOMAIN sales' \ DOMAIN sales :
             /\ sales'[s].buyer = lastEvent.actor
             /\ sales'[s].seller = lastEvent.other
             /\ s \in Range(users'[lastEvent.other].sells)]_vars

\* f agrees with g on the fields of the set fields, record by record
SameFields(f, g, fields) ==
  /\ DOMAIN f = DOMAIN g
  /\ \A x \in DOMAIN f : \A k \in fields : f[x][k] = g[x][k]

\* C24: over every sequence of propose, withdraw, buy-price, permission,
\* control-lever and sale events from the same initial store, the older
\* handler set and the complete one hold the same values in every field
\* both maintain, and stop at the same events.
HandlerSetsAgree ==
  /\ older.halted = halted
  /\ SameFields(older.bids, bids,
                {"bidActive", "bidAccepted", "BidWithdrawnTimestamp",
                 "bidAmount", "bidder", "tokenDetails"})
  /\ SameFields(older.tokens, tokens,
                {"owner", "currentBid", "currentBuyPrice", "numberOfSales",
                 "permissionedAddress"})
  /\ SameFields(older.sales, sales,
                {"tokenSaleNumber", "buyer", "seller", "salePrice",
                 "isBidSale", "bidDetails"})
  /\ SameFields(older.controllers, controllers, {"numberOfUpdates"})
  /\ SameFields(older.layerUpdates, layerUpdates,
                {"updateNumber", "leversUpdated", "costInWei"})
  /\ older.levers = levers

\* both sets have recorded a bid sale, a withdrawn bid or a lever update
\* after three events
HandlerSetsAgreeWitness ==
  /\ seq = MaxBothEvents
  /\ ~older.halted
  /\ \/ \E s \in DOMAIN older.sales : older.sales[s].isBidSale
     \/ \E u \in DOMAIN older.layerUpdates :
          Len(older.layerUpdates[u].leversUpdated) = 2
====
